---- MODULE Spec2Model ----
(***************************************************************************)
(* A model of the TCP file server (src/Server/server.py) and of the        *)
(* download client (src/Client/client.py).                                 *)
(*                                                                         *)
(* Text is modelled byte by byte: a string or a bytes object is a sequence *)
(* of one-character strings, so "/r/f" is <<"/", "r", "/", "f">>.  Path    *)
(* functions follow posixpath (os.sep = "/").                              *)
(*                                                                         *)
(* Specifications:                                                         *)
(*   SpecPath  safe_join as a pure function of (base, path)                *)
(*   SpecList  get_listing over directory contents                         *)
(*   SpecSrv   handle_client serving one connection of an arbitrary peer   *)
(*   Spec      one Downloader session, the GUI registry and the            *)
(*             handle_client context serving the session's connection      *)
(***************************************************************************)
EXTENDS Integers, Sequences, FiniteSets, TLC

\* ------------------------------------------------------------------ bounds

\* Longest logical path, in components, that SpecPath hands to safe_join.
MaxDepth == 3

\* ------------------------------------------------------- strings and bytes

\* Code point of each character the model uses (str comparison in sorted()).
Ord(c) ==
  CASE c = "\n" -> 10
    [] c = " "  -> 32
    [] c = "."  -> 46
    [] c = "/"  -> 47
    [] c = "0"  -> 48
    [] c = "1"  -> 49
    [] c = "2"  -> 50
    [] c = "3"  -> 51
    [] c = "4"  -> 52
    [] c = "5"  -> 53
    [] c = "6"  -> 54
    [] c = "7"  -> 55
    [] c = "8"  -> 56
    [] c = "9"  -> 57
    [] c = ":"  -> 58
    [] c = "D"  -> 68
    [] c = "E"  -> 69
    [] c = "I"  -> 73
    [] c = "N"  -> 78
    [] c = "O"  -> 79
    [] c = "R"  -> 82
    [] c = "S"  -> 83
    [] c = "Z"  -> 90
    [] c = "a"  -> 97
    [] c = "b"  -> 98
    [] c = "d"  -> 100
    [] c = "f"  -> 102
    [] c = "r"  -> 114
    [] c = "s"  -> 115
    [] OTHER    -> 255

\* s.startswith(p)
StartsWith(s, p) == Len(p) <= Len(s) /\ SubSeq(s, 1, Len(p)) = p

\* s.endswith(p)
EndsWith(s, p) ==
  Len(p) <= Len(s) /\ SubSeq(s, Len(s) - Len(p) + 1, Len(s)) = p

\* c in s, for a one-character c
Contains(s, c) == \E i \in 1..Len(s) : s[i] = c

\* s.split(c) for a one-character separator c
Split(s, c) ==
  LET RECURSIVE F(_, _, _)
      F(i, cur, acc) ==
        IF i > Len(s) THEN Append(acc, cur)
        ELSE IF s[i] = c THEN F(i + 1, <<>>, Append(acc, cur))
        ELSE F(i + 1, Append(cur, s[i]), acc)
  IN F(1, <<>>, <<>>)

\* c.join(parts)
JoinWith(parts, c) ==
  LET RECURSIVE F(_)
      F(i) ==
        IF i > Len(parts) THEN <<>>
        ELSE IF i = 1 THEN parts[1] \o F(2)
        ELSE <<c>> \o parts[i] \o F(i + 1)
  IN F(1)

\* s.replace(a, b) for one-character a and b
Replace(s, a, b) == [i \in 1..Len(s) |-> IF s[i] = a THEN b ELSE s[i]]

\* ------------------------------------------------------------------ paths

\* os.sep
sep == "/"

\* The working directory of the server process (os.path.abspath of a
\* relative path joins it in front).
getcwd == <<"/", "w">>

\* os.path.isabs
isabs(p) == StartsWith(p, <<sep>>)

\* os.path.join(a, p)
join(a, p) ==
  IF isabs(p) THEN p
  ELSE IF a = <<>> \/ EndsWith(a, <<sep>>) THEN a \o p
  ELSE a \o <<sep>> \o p

\* The component loop of os.path.normpath.
NormComps(comps, initial_slashes) ==
  LET RECURSIVE F(_, _)
      F(i, new) ==
        IF i > Len(comps) THEN new
        ELSE LET comp == comps[i] IN
          IF comp = <<>> \/ comp = <<".">> THEN F(i + 1, new)
          ELSE IF \/ comp # <<".", ".">>
                  \/ (initial_slashes = 0 /\ new = <<>>)
                  \/ (new # <<>> /\ new[Len(new)] = <<".", ".">>)
               THEN F(i + 1, Append(new, comp))
          ELSE IF new # <<>> THEN F(i + 1, SubSeq(new, 1, Len(new) - 1))
          ELSE F(i + 1, new)
  IN F(1, <<>>)

\* os.path.normpath
normpath(path) ==
  IF path = <<>> THEN <<".">>
  ELSE
    LET initial_slashes ==
          IF ~StartsWith(path, <<sep>>) THEN 0
          ELSE IF StartsWith(path, <<sep, sep>>)
                  /\ ~StartsWith(path, <<sep, sep, sep>>) THEN 2
          ELSE 1
        joined == JoinWith(NormComps(Split(path, sep), initial_slashes), sep)
        res == [i \in 1..initial_slashes |-> sep] \o joined
    IN IF res = <<>> THEN <<".">> ELSE res

\* os.path.abspath
abspath(path) == normpath(IF isabs(path) THEN path ELSE join(getcwd, path))

\* Python's None and a returned string, as one record type.
None == [none |-> TRUE, val |-> <<>>]
Some(v) == [none |-> FALSE, val |-> v]

\* safe_join(base, path)
safe_join(base, path) ==
  LET full_path == normpath(join(base, Replace(path, "/", sep))) IN
  IF ~StartsWith(abspath(full_path), abspath(base)) THEN None
  ELSE Some(full_path)

\* The components of a path, empty ones dropped.
Components(p) == SelectSeq(Split(p, sep), LAMBDA c : c # <<>>)

\* p lies inside root component-wise (p is root or a descendant of it).
InsideRoot(p, root) ==
  StartsWith(Components(abspath(p)), Components(abspath(root)))


\* ------------------------------------------------------------- file system

\* A node of the server's file system: kind "dir" or "file", st_size, and
\* perm = FALSE when the process may not read it (os.listdir and open raise
\* PermissionError).
Node(kind, size, perm) == [kind |-> kind, size |-> size, perm |-> perm]

\* os.path.basename
basename(p) == LET cs == Split(p, sep) IN cs[Len(cs)]

\* os.path.exists, which a check for a regular file could be mistaken for
exists(fsys, p) == p \in DOMAIN fsys

\* os.path.isdir, os.path.isfile, os.path.getsize
isdir(fsys, p) == p \in DOMAIN fsys /\ fsys[p].kind = "dir"
isfile(fsys, p) == p \in DOMAIN fsys /\ fsys[p].kind = "file"
getsize(fsys, p) == fsys[p].size

\* os.listdir: the names of the immediate children, in no particular order
listdir(fsys, p) ==
  {basename(q) : q \in {x \in DOMAIN fsys : x # p /\ join(p, basename(x)) = x}}

\* a < b for Python str (lexicographic by code point)
StrLess(a, b) ==
  LET RECURSIVE F(_)
      F(i) ==
        IF i > Len(b) THEN FALSE
        ELSE IF i > Len(a) THEN TRUE
        ELSE IF Ord(a[i]) < Ord(b[i]) THEN TRUE
        ELSE IF Ord(a[i]) > Ord(b[i]) THEN FALSE
        ELSE F(i + 1)
  IN F(1)

\* The largest-first order a missing sort could leave the names in.
sorted_descending(S) ==
  LET RECURSIVE F(_)
      F(T) ==
        IF T = {} THEN <<>>
        ELSE LET m == CHOOSE x \in T : \A y \in T : y = x \/ StrLess(y, x)
             IN <<m>> \o F(T \ {m})
  IN F(S)

\* sorted(S) for a collection of distinct str
sorted(S) ==
  LET RECURSIVE F(_)
      F(T) ==
        IF T = {} THEN <<>>
        ELSE LET m == CHOOSE x \in T : \A y \in T : y = x \/ StrLess(x, y)
             IN <<m>> \o F(T \ {m})
  IN F(S)

\* round(n / d) to the nearest integer, ties to even: what the format
\* specification .1f does to the exactly representable value n / (10 * d).
RoundHalfEven(n, d) ==
  LET q == n \div d
      r == n % d
  IN IF 2 * r < d THEN q
     ELSE IF 2 * r > d THEN q + 1
     ELSE IF q % 2 = 0 THEN q ELSE q + 1

\* The text f"{size:.1f} {unit}B" as its number, in tenths, and its unit.
SizeText(tenths, unit) == [empty |-> FALSE, tenths |-> tenths, unit |-> unit]

\* The empty string that a directory entry carries as its size.
NoSize == [empty |-> TRUE, tenths |-> 0, unit |-> ""]

\* human_readable_size(size); the running value of size is size / den.
human_readable_size(size) ==
  LET units == <<"", "Ki", "Mi", "Gi", "Ti">>
      RECURSIVE F(_, _)
      F(k, den) ==
        IF k > Len(units) THEN SizeText(RoundHalfEven(10 * size, den), "Pi")
        ELSE IF size < 1024 * den
             THEN SizeText(RoundHalfEven(10 * size, den), units[k])
        ELSE F(k + 1, den * 1024)
  IN F(1, 1)

\* What get_listing hands back: {"listing": items}, {"error": msg}, or an
\* exception that leaves the function (kind "raise").
ListingOf(items) == [kind |-> "listing", items |-> items, msg |-> ""]
ErrorOf(msg) == [kind |-> "error", items |-> <<>>, msg |-> msg]
Raised(msg) == [kind |-> "raise", items |-> <<>>, msg |-> msg]

\* One element of items.
Item(name, size, is_dir) == [name |-> name, size |-> size, is_dir |-> is_dir]

\* Lines 35-52 of get_listing for the joined path full_path (None or a
\* path).  gone holds the names that disappear between os.listdir and the
\* stat calls of the loop: for such a name os.path.isdir is False and
\* os.path.getsize raises FileNotFoundError, which the except
\* PermissionError clause does not catch.
ListingAt(fsys, full_path, gone) ==
  IF full_path.none THEN ErrorOf("Access denied")
  ELSE IF ~isdir(fsys, full_path.val) THEN ErrorOf("Path not found")
  ELSE IF ~fsys[full_path.val].perm THEN ErrorOf("Permission denied")
  ELSE
    LET names == sorted(listdir(fsys, full_path.val)) IN
    IF \E i \in 1..Len(names) : names[i] \in gone
    THEN Raised("FileNotFoundError")
    ELSE ListingOf(
           [i \in 1..Len(names) |->
              IF isdir(fsys, join(full_path.val, names[i]))
              THEN Item(names[i] \o <<"/">>, NoSize, TRUE)
              ELSE Item(names[i],
                        human_readable_size(
                          getsize(fsys, join(full_path.val, names[i]))),
                        FALSE)])

\* get_listing(path) under ROOT_DIR = root
get_listing(fsys, root, path, gone) ==
  ListingAt(fsys, safe_join(root, path), gone)

\* ------------------------------------------------------------ wire format

\* Sizes the program passes to recv and read.
RECV_SIZE == 4096
READ_SIZE == 65536

Min(a, b) == IF a < b THEN a ELSE b

\* str(n) for n >= 0
Digit(d) == <<"0", "1", "2", "3", "4", "5", "6", "7", "8", "9">>[d + 1]
Str(n) ==
  LET RECURSIVE F(_)
      F(m) == IF m < 10 THEN <<Digit(m)>> ELSE F(m \div 10) \o <<Digit(m % 10)>>
  IN F(n)

\* The terminal marker b'END\n' and the header texts.  The text of an
\* error message is one element of the byte sequence.
END == <<"E", "N", "D", "\n">>
SizeHeader(n) == <<"S", "I", "Z", "E", ":">> \o Str(n) \o <<"\n">>
ErrorHeader(msg) == <<"E", "R", "R", "O", "R", ":", " ", msg, "\n">>

\* json.dumps(response).encode('utf-8') + b'\n': the JSON text of a List
\* response is one element of the byte sequence, named after its key.
JsonLine(response) ==
  <<IF response.kind = "listing" THEN "{listing}" ELSE "{error}", "\n">>

\* A command frame on the wire is the text of one record followed by the
\* delimiter.  The text of a record is one element of the stream:
\*   json   "obj" (a JSON object), "nonobj" (any other JSON value),
\*          "invalid" (not JSON), "nonutf8" (not UTF-8), "nl" (the delimiter)
\*   type   "LIST", "DOWNLOAD", "OTHER" (any other value), "missing"
\*   pkind  "str", "nonstr" (a number, null, a list ...), "missing"
\*   path   the value of 'path' when it is a string
Record(json, type, pkind, path) ==
  [json |-> json, type |-> type, pkind |-> pkind, path |-> path]
NL == Record("nl", "", "", <<>>)

\* data.decode('utf-8').strip(): the delimiters at both ends removed
Strip(data) ==
  LET idx == {i \in 1..Len(data) : data[i] # NL} IN
  IF idx = {} THEN <<>>
  ELSE SubSeq(data, CHOOSE i \in idx : \A j \in idx : i <= j,
                    CHOOSE i \in idx : \A j \in idx : i >= j)

\* What one pass of the command loop of handle_client does with data:
\*   act "raise"  an exception leaves the loop (exc names it)
\*   act "none"   nothing is sent, the loop goes on
\*   act "send"   bytes are sent and the loop goes on
\*   act "stream" the SIZE header is sent and the file full_path follows
Outcome(act, exc, resp, bytes, n, items, full_path) ==
  [act |-> act, exc |-> exc, resp |-> resp, bytes |-> bytes, n |-> n,
   items |-> items, full_path |-> full_path]

Raise(exc) == Outcome("raise", exc, "raise", <<>>, 0, <<>>, <<>>)

\* Line 73: the List response is sent, unless get_listing raised.
ReplyList(response) ==
  IF response.kind = "raise" THEN Raise(response.msg)
  ELSE Outcome("send", "", response.kind, JsonLine(response), 0,
               response.items, <<>>)

\* Lines 78-83: the ERROR header, or the SIZE header of the file.
ReplyDownload(fsys, full_path) ==
  IF full_path.none \/ ~isfile(fsys, full_path.val)
  THEN Outcome("send", "", "ERROR",
               ErrorHeader("File not found or access denied"), 0, <<>>, <<>>)
  ELSE Outcome("stream", "", "SIZE",
               SizeHeader(getsize(fsys, full_path.val)),
               getsize(fsys, full_path.val), <<>>, full_path.val)

\* Lines 70-83: dispatch on cmd['type'] of the decoded value cmd.
ReplyCmd(fsys, root, cmd, gone) ==
  IF cmd.json = "nonobj" THEN Raise("TypeError")
  ELSE IF cmd.type = "missing" THEN Raise("KeyError")
  ELSE IF cmd.type \in {"LIST", "DOWNLOAD"} /\ cmd.pkind = "nonstr"
  THEN Raise("AttributeError")
  ELSE IF cmd.type = "LIST"
  THEN ReplyList(get_listing(fsys, root,
                             IF cmd.pkind = "missing" THEN <<"/">>
                             ELSE cmd.path,
                             gone))
  ELSE IF cmd.type = "DOWNLOAD"
  THEN ReplyDownload(fsys, safe_join(root, IF cmd.pkind = "missing" THEN <<>>
                                           ELSE cmd.path))
  ELSE Outcome("none", "", "none", <<>>, 0, <<>>, <<>>)

\* Lines 65-68: json.loads of the stripped text.
ReplyText(fsys, root, text, gone) ==
  IF Len(text) # 1 \/ text[1].json = "invalid"
  THEN Outcome("send", "", "ERROR", ErrorHeader("Invalid JSON"), 0, <<>>, <<>>)
  ELSE ReplyCmd(fsys, root, text[1], gone)

\* Lines 64-83 of handle_client for the frame data.
Reply(fsys, root, data, gone) ==
  IF \E i \in 1..Len(data) : data[i].json = "nonutf8"
  THEN Raise("UnicodeDecodeError")
  ELSE ReplyText(fsys, root, Strip(data), gone)

VARIABLES
  sjBase,    \* SpecPath: the base handed to safe_join
  sjPath,    \* SpecPath: the logical path handed to safe_join
  sjResult,  \* SpecPath: what safe_join returned
  sjPc,      \* SpecPath: "in" before the call, "out" after it
  fs,        \* the server's file system: absolute path -> Node
  ROOT_DIR,  \* the server's configured root directory
  lsPath,    \* SpecList: the logical path handed to get_listing
  lsGone,    \* SpecList: the names that vanished during the call
  lsResult,  \* SpecList: what get_listing returned
  lsPc,      \* SpecList: "in" before the call, "out" after it
  fdata,     \* the bytes of the server's files: absolute path -> bytes
  c2s,       \* per connection: what the client wrote and the server has not read
  s2c,       \* per connection: what the server wrote and the client has not read
  cliClosed, \* per connection: the client closed its socket
  srvClosed, \* per connection: the server closed its socket
  broken,    \* per connection: the connection was reset
  spc,       \* per connection: where its handle_client context is
  sdata,     \* per connection: handle_client's data
  sfile,     \* per connection: the full_path of the file being streamed
  sofs,      \* per connection: the read position in that file
  slog,      \* per connection: every frame handled and what was answered
  psent,     \* per connection: the number of frames the peer has written
  dpc,       \* per Downloader: where its _download thread is
  file_path, \* per Downloader: self.file_path, the remote path
  cancelled, \* per Downloader: self.cancelled
  total_size, \* per Downloader: self.total_size
  downloaded, \* per Downloader: self.downloaded
  header,    \* per Downloader: the header bytes gathered so far
  dest,      \* per Downloader: the file at self.save_path
  outcome,   \* per Downloader: "none", "complete", "cancelled" or "failed"
  dw,        \* per Downloader: the widgets update_progress looked up (w)
  hist,      \* per Downloader: what happened to it, for the properties
  downloaders,      \* ClientGUI.downloaders: remote path -> Downloader
  progress_widgets, \* ClientGUI.progress_widgets: remote path -> widgets
  destroyed  \* the progress frames that were destroyed

pathVars == <<sjBase, sjPath, sjResult, sjPc>>
fsVars == <<fs, ROOT_DIR>>
listVars == <<lsPath, lsGone, lsResult, lsPc>>
netVars == <<c2s, s2c, cliClosed, srvClosed, broken>>
srvVars == <<fdata, spc, sdata, sfile, sofs, slog, psent>>

staticVars == <<pathVars, fsVars, listVars>>
cliVars == <<dpc, file_path, cancelled, total_size, downloaded, header,
             dest, outcome, dw, hist>>
guiVars == <<downloaders, progress_widgets, destroyed>>

vars == <<pathVars, fsVars, listVars, netVars, srvVars, cliVars, guiVars>>

\* Connections: the model names a connection after the client that made it.
ConnIds == {1}

\* Downloader objects; Downloader s talks over connection s, and the
\* progress frame made for it is widget s.
Sessions == {1}

\* Remote paths the GUI can ask for: the file /r/f and the directory /r/d/.
RemotePaths == {<<"/", "r", "/", "f">>, <<"/", "r", "/", "d", "/">>}

\* A file at save_path, or none.
NoFile == [exists |-> FALSE, data |-> <<>>]
FileOf(bytes) == [exists |-> TRUE, data |-> bytes]

\* What the properties need to know of a session's past: cancel() came
\* while it was transferring; a recv of the transfer loop returned b''
\* before total_size bytes had arrived.
NoHist == [cancelInTransfer |-> FALSE, shortStream |-> FALSE]

\* The parts of the state a specification does not use, at rest.
pathIdle ==
  /\ sjBase = <<"/">> /\ sjPath = <<>> /\ sjResult = None /\ sjPc = "off"

listIdle ==
  /\ lsPath = <<>> /\ lsGone = {} /\ lsResult = ListingOf(<<>>)
  /\ lsPc = "off"

netIdle ==
  /\ c2s = [c \in ConnIds |-> <<>>] /\ s2c = [c \in ConnIds |-> <<>>]
  /\ cliClosed = [c \in ConnIds |-> FALSE]
  /\ srvClosed = [c \in ConnIds |-> FALSE]
  /\ broken = [c \in ConnIds |-> FALSE]

srvIdle ==
  /\ fdata = <<>>
  /\ spc = [c \in ConnIds |-> "none"]
  /\ sdata = [c \in ConnIds |-> <<>>]
  /\ sfile = [c \in ConnIds |-> <<>>]
  /\ sofs = [c \in ConnIds |-> 0]
  /\ slog = [c \in ConnIds |-> <<>>]
  /\ psent = [c \in ConnIds |-> 0]

cliIdle ==
  /\ dpc = [s \in Sessions |-> "off"]
  /\ file_path = [s \in Sessions |-> <<>>]
  /\ cancelled = [s \in Sessions |-> FALSE]
  /\ total_size = [s \in Sessions |-> 0]
  /\ downloaded = [s \in Sessions |-> 0]
  /\ header = [s \in Sessions |-> <<>>]
  /\ dest = [s \in Sessions |-> NoFile]
  /\ outcome = [s \in Sessions |-> "none"]
  /\ dw = [s \in Sessions |-> 0]
  /\ hist = [s \in Sessions |-> NoHist]
  /\ downloaders = [p \in RemotePaths |-> 0]
  /\ progress_widgets = [p \in RemotePaths |-> 0]
  /\ destroyed = {}

\* ---------------------------------------------------------------- SpecPath

\* Path components the logical paths are built from: an empty component
\* (a leading or repeated separator), ".", "..", the root's own name, a
\* sibling's name that has the root's name as a string prefix, a file name.
PathComps == {<<>>, <<".">>, <<".", ".">>, <<"r">>, <<"r", "2">>, <<"f">>}

LogicalPaths ==
  {JoinWith(cs, "/") : cs \in UNION {[1..k -> PathComps] : k \in 0..MaxDepth}}

Bases == {<<"/">>, <<"/", "r">>, <<"/", "r", "/">>, <<"/", "s", "/", "r">>}

InitPath ==
  /\ sjBase \in Bases
  /\ sjPath \in LogicalPaths
  /\ sjResult = None
  /\ sjPc = "in"
  /\ fs = <<>> /\ ROOT_DIR = sjBase
  /\ listIdle /\ netIdle /\ srvIdle /\ cliIdle

CallSafeJoin ==
  /\ sjPc = "in"
  /\ sjResult' = safe_join(sjBase, sjPath)
  /\ sjPc' = "out"
  /\ UNCHANGED <<sjBase, sjPath, fsVars, listVars, netVars, srvVars, cliVars,
                 guiVars>>

NextPath == CallSafeJoin

SpecPath == InitPath /\ [][NextPath]_vars

\* C7: whatever safe_join returns lies inside the root component-wise; a
\* logical path that resolves outside the root yields None.
C7_RootConfinement ==
  (sjPc = "out" /\ ~sjResult.none) => InsideRoot(sjResult.val, sjBase)

\* ---------------------------------------------------------------- SpecList

\* Names of the children a listed directory may hold.  "." sorts before "/",
\* which sorts before "0".
ListNames == {<<"a">>, <<"a", ".", "b">>, <<"a", "0">>, <<"b">>}

\* Byte lengths of the files: empty, below one KiB, a tie of the rounding
\* (1280 / 1024 = 1.25), and one MiB.
FileSizes == {0, 10, 1280, 1048576}

\* What a name may be in the directory: absent, a subdirectory, a file.
NodeChoices ==
  {Node("none", 0, TRUE), Node("dir", 0, TRUE)}
    \cup {Node("file", n, TRUE) : n \in FileSizes}

\* The logical paths listed: the root, a child, a missing name, the parent.
ListPaths == {<<>>, <<"a">>, <<"x">>, <<".", ".">>}

\* The file system with root directory root holding the children ch.
MkFs(root, ch, rootPerm) ==
  LET present == {n \in DOMAIN ch : ch[n].kind # "none"}
      dom == {root} \cup {join(root, n) : n \in present}
  IN [q \in dom |->
        IF q = root THEN Node("dir", 0, rootPerm) ELSE ch[basename(q)]]

InitList ==
  /\ ROOT_DIR = <<"/", "r">>
  /\ \E ch \in [ListNames -> NodeChoices], rootPerm \in BOOLEAN :
       fs = MkFs(ROOT_DIR, ch, rootPerm)
  /\ lsPath \in ListPaths
  /\ lsGone = {}
  /\ lsResult = ListingOf(<<>>)
  /\ lsPc = "in"
  /\ pathIdle /\ netIdle /\ srvIdle /\ cliIdle

\* response = get_listing(path), with at most one child vanishing meanwhile
CallGetListing ==
  /\ lsPc = "in"
  /\ \E gone \in {{}} \cup {{n} : n \in ListNames} :
       /\ lsGone' = gone
       /\ lsResult' = get_listing(fs, ROOT_DIR, lsPath, gone)
  /\ lsPc' = "out"
  /\ UNCHANGED <<lsPath, fsVars, pathVars, netVars, srvVars, cliVars, guiVars>>

NextList == CallGetListing

SpecList == InitList /\ [][NextList]_vars

Pow1024(k) == IF k = 0 THEN 1 ELSE IF k = 1 THEN 1024 ELSE IF k = 2 THEN 1048576 ELSE 1073741824

UnitIndex(u) ==
  CASE u = "" -> 0 [] u = "Ki" -> 1 [] u = "Mi" -> 2 [] OTHER -> 3

\* The directory the returned listing is of.
ListedDir == safe_join(ROOT_DIR, lsPath).val

\* The name of the child an item stands for: a directory's item carries a
\* trailing "/".
EntryName(it) ==
  IF it.is_dir THEN SubSeq(it.name, 1, Len(it.name) - 1) ELSE it.name

\* Every directory entry has is_dir true, a name ending in "/" and an empty
\* size; every file entry has is_dir false and the size text of its byte
\* length: the unit is the largest power of 1024 not above the length, the
\* number is the quotient rounded to one decimal.
EntriesDescribeChildren ==
  \A i \in 1..Len(lsResult.items) :
    LET it == lsResult.items[i]
        child == join(ListedDir, EntryName(it))
    IN /\ child \in DOMAIN fs
       /\ IF fs[child].kind = "dir"
          THEN it.is_dir /\ it.size.empty /\ EndsWith(it.name, <<"/">>)
          ELSE /\ ~it.is_dir /\ ~it.size.empty
               /\ LET k == UnitIndex(it.size.unit)
                      len == fs[child].size
                  IN /\ k <= 2
                     /\ (k = 0 \/ len >= Pow1024(k))
                     /\ len < Pow1024(k + 1)
                     /\ 2 * (it.size.tenths * Pow1024(k) - 10 * len) <= Pow1024(k)
                     /\ 2 * (10 * len - it.size.tenths * Pow1024(k)) <= Pow1024(k)

\* C10 as stated: the returned items are sorted by their 'name' field, and
\* describe their children.
C10_SortedByReturnedName ==
  (lsPc = "out" /\ lsResult.kind = "listing") =>
    /\ \A i, j \in 1..Len(lsResult.items) :
         i < j => StrLess(lsResult.items[i].name, lsResult.items[j].name)
    /\ EntriesDescribeChildren

\* C10 amended: the returned items are sorted by the names of the children
\* they stand for (the 'name' field without the "/" a directory's item
\* carries), every child is listed, and the items describe their children.
C10_SortedByEntryName ==
  (lsPc = "out" /\ lsResult.kind = "listing") =>
    /\ \A i, j \in 1..Len(lsResult.items) :
         i < j => StrLess(EntryName(lsResult.items[i]),
                          EntryName(lsResult.items[j]))
    /\ {EntryName(lsResult.items[i]) : i \in 1..Len(lsResult.items)}
         = listdir(fs, ListedDir)
    /\ EntriesDescribeChildren

\* C10 witness: a listing of subdirectories and files together, one of the
\* files a KiB or more long.
C10_Witness ==
  /\ lsPc = "out" /\ lsResult.kind = "listing"
  /\ Len(lsResult.items) >= 3
  /\ \E i, j \in 1..Len(lsResult.items) :
       /\ lsResult.items[i].is_dir
       /\ ~lsResult.items[j].is_dir /\ lsResult.items[j].size.unit = "Ki"

\* ----------------------------------------------------------- handle_client

\* One entry of slog: the data of one pass of the command loop, what was
\* answered (resp: "listing", "error", "ERROR", "SIZE", "none", "raise"), the
\* exception that ended the pass if one did, the declared length, the items
\* of a listing, the file streamed, the names that vanished during a
\* listing, and the bytes written after the header so far.
LogEntry(data, o, gone) ==
  [data |-> data, resp |-> o.resp, exc |-> o.exc, n |-> o.n,
   items |-> o.items, full_path |-> o.full_path, gone |-> gone,
   body |-> <<>>]

\* The last entry of connection c's log with its body extended by bytes.
LogBody(c, bytes) ==
  [slog EXCEPT ![c][Len(slog[c])].body = @ \o bytes]

\* The last entry of connection c's log marked as ended by exception exc.
LogRaise(c, exc) ==
  [slog EXCEPT ![c][Len(slog[c])].exc = exc]

\* conn.sendall may raise once the peer has closed or the connection was
\* reset, and must raise when it was reset.
SendFailures(c) ==
  IF broken[c] THEN {TRUE}
  ELSE IF cliClosed[c] THEN {TRUE, FALSE}
  ELSE {FALSE}

\* A handler whose failure took the whole server down would close every
\* connection, whichever one failed.
SrvClose_All(c) ==
  /\ spc' = [d \in DOMAIN spc |-> "done"]
  /\ srvClosed' = [d \in DOMAIN spc |-> TRUE]
  /\ sdata' = [d \in DOMAIN spc |-> <<>>]
  /\ sfile' = [d \in DOMAIN spc |-> <<>>]
  /\ sofs' = [d \in DOMAIN spc |-> 0]

\* The except and finally clauses of handle_client: conn.close().
SrvClose(c) ==
  /\ spc' = [spc EXCEPT ![c] = "done"]
  /\ srvClosed' = [srvClosed EXCEPT ![c] = TRUE]
  /\ sdata' = [sdata EXCEPT ![c] = <<>>]
  /\ sfile' = [sfile EXCEPT ![c] = <<>>]
  /\ sofs' = [sofs EXCEPT ![c] = 0]

\* main: s.accept() and the start of the connection's thread.
MainAccept(c) ==
  /\ spc[c] = "pending"
  /\ spc' = [spc EXCEPT ![c] = "recv"]
  /\ sdata' = [sdata EXCEPT ![c] = <<>>]
  /\ UNCHANGED <<staticVars, cliVars, guiVars, netVars, fdata, sfile, sofs,
                 slog, psent>>

\* chunk = conn.recv(4096) in the loop that gathers data.
SrvRecv(c) ==
  /\ spc[c] = "recv"
  /\ broken[c] \/ c2s[c] # <<>> \/ cliClosed[c]
  /\ IF broken[c]
     THEN SrvClose(c) /\ UNCHANGED c2s
     ELSE IF c2s[c] = <<>>
     THEN SrvClose(c) /\ UNCHANGED c2s
     ELSE \E k \in 1..Min(Len(c2s[c]), RECV_SIZE) :
            LET data == sdata[c] \o SubSeq(c2s[c], 1, k) IN
            /\ c2s' = [c2s EXCEPT ![c] = SubSeq(@, k + 1, Len(@))]
            /\ sdata' = [sdata EXCEPT ![c] = data]
            /\ spc' = [spc EXCEPT ![c] =
                         IF data[Len(data)] = NL THEN "dispatch" ELSE "recv"]
            /\ UNCHANGED <<srvClosed, sfile, sofs>>
  /\ UNCHANGED <<staticVars, cliVars, guiVars, s2c, cliClosed, broken, fdata,
                 slog, psent>>

\* The names a listing may lose while it is taken: none, or one child of
\* the root.
GoneChoices == {{}} \cup {{n} : n \in listdir(fs, ROOT_DIR)}

\* Decoding and dispatch of one frame, up to and including the first
\* sendall of the response.
SrvDispatch(c) ==
  /\ spc[c] = "dispatch"
  /\ \E gone \in GoneChoices, fail \in SendFailures(c) :
       \E o \in {Reply(fs, ROOT_DIR, sdata[c], gone)} :
       \E e \in {LogEntry(sdata[c], o,
                          IF o.resp = "listing" \/ o.exc = "FileNotFoundError"
                          THEN gone ELSE {})} :
       IF o.act = "raise" \/ (fail /\ o.act \in {"send", "stream"})
       THEN /\ slog' = [slog EXCEPT ![c] =
                 Append(@, [e EXCEPT !.exc = IF o.act = "raise" THEN o.exc
                                             ELSE "BrokenPipeError",
                                     !.resp = "raise"])]
            /\ SrvClose(c)
            /\ UNCHANGED s2c
       ELSE /\ slog' = [slog EXCEPT ![c] = Append(@, e)]
            /\ s2c' = [s2c EXCEPT ![c] = @ \o o.bytes]
            /\ spc' = [spc EXCEPT ![c] =
                         IF o.act = "stream" THEN "open" ELSE "recv"]
            /\ sdata' = [sdata EXCEPT ![c] = <<>>]
            /\ sfile' = [sfile EXCEPT ![c] = o.full_path]
            /\ UNCHANGED <<srvClosed, sofs>>
  /\ UNCHANGED <<staticVars, cliVars, guiVars, c2s, cliClosed, broken, fdata,
                 psent>>

\* with open(full_path, 'rb') as f
SrvOpen(c) ==
  /\ spc[c] = "open"
  /\ IF ~isfile(fs, sfile[c]) \/ ~fs[sfile[c]].perm
     THEN /\ slog' = LogRaise(c, IF isfile(fs, sfile[c])
                                 THEN "PermissionError"
                                 ELSE "IsADirectoryError")
          /\ SrvClose(c)
     ELSE /\ spc' = [spc EXCEPT ![c] = "body"]
          /\ sofs' = [sofs EXCEPT ![c] = 0]
          /\ UNCHANGED <<slog, srvClosed, sdata, sfile>>
  /\ UNCHANGED <<staticVars, cliVars, guiVars, c2s, s2c, cliClosed, broken,
                 fdata, psent>>

\* A handler that handed the rest of the body to another thread would send
\* the first chunk and go back to reading commands.
SrvSendChunk_ThenRead(c) ==
  /\ spc[c] = "body"
  /\ sofs[c] < Len(fdata[sfile[c]])
  /\ s2c' = [s2c EXCEPT ![c] = @ \o SubSeq(fdata[sfile[c]], sofs[c] + 1,
                                             sofs[c] + 1)]
  /\ slog' = LogBody(c, SubSeq(fdata[sfile[c]], sofs[c] + 1, sofs[c] + 1))
  /\ spc' = [spc EXCEPT ![c] = "recv"]
  /\ sdata' = [sdata EXCEPT ![c] = <<>>]
  /\ UNCHANGED <<staticVars, cliVars, guiVars, c2s, cliClosed, srvClosed,
                 broken, fdata, sfile, sofs, psent>>

\* chunk = f.read(65536) returned bytes: conn.sendall(chunk)
SrvSendChunk(c) ==
  /\ spc[c] = "body"
  /\ sofs[c] < Len(fdata[sfile[c]])
  /\ \E fail \in SendFailures(c) :
       LET chunk == SubSeq(fdata[sfile[c]], sofs[c] + 1,
                           Min(sofs[c] + READ_SIZE, Len(fdata[sfile[c]])))
       IN IF fail
          THEN /\ slog' = LogRaise(c, "BrokenPipeError")
               /\ SrvClose(c)
               /\ UNCHANGED s2c
          ELSE /\ s2c' = [s2c EXCEPT ![c] = @ \o chunk]
               /\ slog' = LogBody(c, chunk)
               /\ sofs' = [sofs EXCEPT ![c] = @ + Len(chunk)]
               /\ UNCHANGED <<spc, srvClosed, sdata, sfile>>
  /\ UNCHANGED <<staticVars, cliVars, guiVars, c2s, cliClosed, broken, fdata,
                 psent>>

\* f.read(65536) returned nothing: break, then conn.sendall(b'END\n') and
\* the next pass of the command loop.
SrvSendEnd(c) ==
  /\ spc[c] = "body"
  /\ sofs[c] >= Len(fdata[sfile[c]])
  /\ \E fail \in SendFailures(c) :
       IF fail
       THEN /\ slog' = LogRaise(c, "BrokenPipeError")
            /\ SrvClose(c)
            /\ UNCHANGED s2c
       ELSE /\ s2c' = [s2c EXCEPT ![c] = @ \o END]
            /\ slog' = LogBody(c, END)
            /\ spc' = [spc EXCEPT ![c] = "recv"]
            /\ sdata' = [sdata EXCEPT ![c] = <<>>]
            /\ sfile' = [sfile EXCEPT ![c] = <<>>]
            /\ sofs' = [sofs EXCEPT ![c] = 0]
            /\ UNCHANGED srvClosed
  /\ UNCHANGED <<staticVars, cliVars, guiVars, c2s, cliClosed, broken, fdata,
                 psent>>

\* The connection is reset: what was in flight is lost, and every later
\* recv and sendall on it raises.
ConnReset(c) ==
  /\ spc[c] \notin {"none", "done"}
  /\ ~broken[c] /\ ~cliClosed[c]
  /\ broken' = [broken EXCEPT ![c] = TRUE]
  /\ c2s' = [c2s EXCEPT ![c] = <<>>]
  /\ s2c' = [s2c EXCEPT ![c] = <<>>]
  /\ UNCHANGED <<staticVars, cliVars, guiVars, cliClosed, srvClosed, srvVars>>

\* ----------------------------------------------------------------- SpecSrv

\* Frames a peer may write to a connection.
MaxFrames == 2

\* The file system of the server specifications: the root /r with the
\* directory d and the file f, and beside it the directory /r2 with the
\* file s.
SrvFs(fbytes, fperm) ==
  ( <<"/", "r">> :> Node("dir", 0, TRUE)
    @@ <<"/", "r", "/", "d">> :> Node("dir", 0, TRUE)
    @@ <<"/", "r", "/", "f">> :> Node("file", Len(fbytes), fperm)
    @@ <<"/", "r", "2">> :> Node("dir", 0, TRUE)
    @@ <<"/", "r", "2", "/", "s">> :> Node("file", 1, TRUE) )

SrvData(fbytes) ==
  ( <<"/", "r", "/", "f">> :> fbytes
    @@ <<"/", "r", "2", "/", "s">> :> <<"s">> )

\* Paths a peer names: the file, the directory, the root itself, and the
\* file of the sibling directory.
PeerPaths ==
  {<<"f">>, <<"d">>, <<>>, <<".", ".", "/", "r", "2", "/", "s">>}

\* Records a peer writes: well-formed commands, and every kind of frame
\* that is not one.
PeerRecords ==
  {Record("obj", t, "str", p) : t \in {"LIST", "DOWNLOAD"}, p \in PeerPaths}
    \cup {Record("obj", t, k, <<>>) :
            t \in {"LIST", "DOWNLOAD"}, k \in {"nonstr", "missing"}}
    \cup {Record("obj", "OTHER", "missing", <<>>),
          Record("obj", "missing", "missing", <<>>),
          Record("nonobj", "", "", <<>>),
          Record("invalid", "", "", <<>>),
          Record("nonutf8", "", "", <<>>)}

InitSrv ==
  /\ ROOT_DIR = <<"/", "r">>
  /\ fs = SrvFs(<<"a", "b">>, TRUE)
  /\ fdata = SrvData(<<"a", "b">>)
  /\ netIdle
  /\ spc = [c \in ConnIds |-> "pending"]
  /\ sdata = [c \in ConnIds |-> <<>>]
  /\ sfile = [c \in ConnIds |-> <<>>]
  /\ sofs = [c \in ConnIds |-> 0]
  /\ slog = [c \in ConnIds |-> <<>>]
  /\ psent = [c \in ConnIds |-> 0]
  /\ pathIdle /\ listIdle /\ cliIdle

\* A peer writes one command frame: a record and the delimiter.
PeerSend(c) ==
  /\ spc[c] # "none" /\ ~cliClosed[c] /\ ~broken[c]
  /\ psent[c] < MaxFrames
  /\ \E r \in PeerRecords : c2s' = [c2s EXCEPT ![c] = @ \o <<r, NL>>]
  /\ psent' = [psent EXCEPT ![c] = @ + 1]
  /\ UNCHANGED <<staticVars, cliVars, guiVars, s2c, cliClosed, srvClosed,
                 broken, fdata, spc, sdata, sfile, sofs, slog>>

\* A peer closes its socket.
PeerClose(c) ==
  /\ spc[c] # "none" /\ ~cliClosed[c] /\ ~broken[c]
  /\ cliClosed' = [cliClosed EXCEPT ![c] = TRUE]
  /\ UNCHANGED <<staticVars, cliVars, guiVars, c2s, s2c, srvClosed, broken,
                 srvVars>>

NextSrv ==
  \E c \in ConnIds :
    \/ MainAccept(c)
    \/ SrvRecv(c)
    \/ SrvDispatch(c)
    \/ SrvOpen(c)
    \/ SrvSendChunk(c)
    \/ SrvSendEnd(c)
    \/ PeerSend(c)
    \/ PeerClose(c)

SpecSrv == InitSrv /\ [][NextSrv]_vars

\* The record of a log entry whose data is exactly one command frame.
IsFrame(e) == Len(e.data) = 2 /\ e.data[1] # NL /\ e.data[2] = NL

\* Connection c's handler has finished with entry i of its log: it has gone
\* on to read the next frame.
Finished(c, i) == i < Len(slog[c]) \/ spc[c] \in {"recv", "dispatch"}

\* C2: after the header SIZE:<n> the handler writes exactly n bytes, the
\* file's content and nothing else, before it reads the next frame; after
\* an ERROR header it writes nothing.
C2_DownloadEnvelope ==
  \A c \in ConnIds : \A i \in 1..Len(slog[c]) :
    LET e == slog[c][i] IN
    Finished(c, i) =>
      /\ (e.resp = "SIZE" =>
            Len(e.body) = e.n /\ e.body = fdata[e.full_path])
      /\ (e.resp = "ERROR" => e.body = <<>>)

\* A record that is no List or Download command.
Malformed(r) ==
  \/ r.json # "obj"
  \/ r.type \notin {"LIST", "DOWNLOAD"}
  \/ r.pkind = "nonstr"

\* C8: a frame that cannot be decoded into a List or Download command is
\* answered with an error response and the handler goes on (unless the
\* response could not be sent because the peer was gone).
C8_MalformedAnswered ==
  \A c \in ConnIds : \A i \in 1..Len(slog[c]) :
    LET e == slog[c][i] IN
    (IsFrame(e) /\ Malformed(e.data[1]) /\ e.exc # "BrokenPipeError") =>
      e.resp \in {"ERROR", "error"}

\* The path a well-formed command's record resolves to.
Resolved(r) == safe_join(ROOT_DIR, r.path)

\* What the file system holds at path p: "dir", "file" or "nothing".
KindAt(p) == IF p \in DOMAIN fs THEN fs[p].kind ELSE "nothing"

\* e is a DOWNLOAD of a directory / a LIST of a regular file.
DownloadOfDir(e) ==
  /\ IsFrame(e) /\ e.data[1].json = "obj" /\ e.data[1].type = "DOWNLOAD"
  /\ e.data[1].pkind = "str"
  /\ ~Resolved(e.data[1]).none /\ KindAt(Resolved(e.data[1]).val) = "dir"

ListOfFile(e) ==
  /\ IsFrame(e) /\ e.data[1].json = "obj" /\ e.data[1].type = "LIST"
  /\ e.data[1].pkind = "str"
  /\ ~Resolved(e.data[1]).none /\ KindAt(Resolved(e.data[1]).val) = "file"

\* e is a DOWNLOAD of a readable regular file / a LIST of a readable
\* directory none of whose children vanishes meanwhile.
ValidDownload(e) ==
  /\ IsFrame(e) /\ e.data[1].json = "obj" /\ e.data[1].type = "DOWNLOAD"
  /\ e.data[1].pkind = "str"
  /\ ~Resolved(e.data[1]).none /\ KindAt(Resolved(e.data[1]).val) = "file"
  /\ fs[Resolved(e.data[1]).val].perm

ValidList(e) ==
  /\ IsFrame(e) /\ e.data[1].json = "obj" /\ e.data[1].type = "LIST"
  /\ e.data[1].pkind = "str"
  /\ ~Resolved(e.data[1]).none /\ KindAt(Resolved(e.data[1]).val) = "dir"
  /\ fs[Resolved(e.data[1]).val].perm
  /\ e.gone = {}

\* Entry i of connection c's log carries the answer its command asks for:
\* a listing of the directory's children, or the header SIZE:<length of the
\* file> followed by the file's bytes.
Answered(c, i) ==
  LET e == slog[c][i]
      p == Resolved(e.data[1]).val
  IN /\ ValidList(e) =>
          /\ e.resp = "listing"
          /\ {EntryName(e.items[k]) : k \in 1..Len(e.items)} = listdir(fs, p)
     /\ ValidDownload(e) =>
          /\ e.resp = "SIZE" /\ e.n = Len(fdata[p])
          /\ LET m == Min(Len(e.body), e.n) IN
               SubSeq(e.body, 1, m) = SubSeq(fdata[p], 1, m)
          /\ Finished(c, i) => Len(e.body) >= e.n

\* C9: a DOWNLOAD of a directory is answered with an ERROR header and a
\* LIST of a regular file with an {"error": ...} record, no exception ends
\* the handler, and the next command on the connection gets its answer
\* (while the peer is there to be answered).
C9_WrongKindAnswered ==
  \A c \in ConnIds : \A i \in 1..Len(slog[c]) :
    LET e == slog[c][i] IN
    ((DownloadOfDir(e) \/ ListOfFile(e)) /\ e.exc # "BrokenPipeError") =>
      /\ DownloadOfDir(e) => e.resp = "ERROR"
      /\ ListOfFile(e) => e.resp = "error"
      /\ e.exc = "" /\ e.body = <<>>
      /\ (i = Len(slog[c]) /\ ~cliClosed[c] /\ ~broken[c]) =>
           spc[c] \in {"recv", "dispatch"}
      /\ (i < Len(slog[c]) /\ slog[c][i + 1].exc # "BrokenPipeError") =>
           Answered(c, i + 1)

\* C9 witness: a LIST of a regular file answered with an error record, and
\* after it a DOWNLOAD of that file answered with its header and all its
\* bytes.
C9_Witness ==
  \E c \in ConnIds :
    /\ Len(slog[c]) = 2
    /\ ListOfFile(slog[c][1]) /\ slog[c][1].resp = "error"
    /\ ValidDownload(slog[c][2]) /\ slog[c][2].resp = "SIZE"
    /\ Finished(c, 2)

\* What the handler has written for entry e of a log: the first sendall of
\* the answer to e's data, and the bytes written after it.
Written(e) ==
  IF e.resp \in {"raise", "none"} THEN <<>>
  ELSE Reply(fs, ROOT_DIR, e.data, e.gone).bytes \o e.body

\* What the handler of connection c has written for the first n entries of
\* its log, in their order.
RECURSIVE WrittenUpTo(_, _)
WrittenUpTo(c, n) ==
  IF n = 0 THEN <<>> ELSE WrittenUpTo(c, n - 1) \o Written(slog[c][n])

\* The response of entry e is all there: after a SIZE header, every byte
\* of the file and what the handler sends after them.
ResponseComplete(e) ==
  e.resp = "SIZE" => e.body = fdata[e.full_path] \o END

\* C12: whenever the handler of a connection is reading a command (in
\* conn.recv or about to decode what it read), the response to everything
\* it read before is written in full, for a DOWNLOAD the header and the
\* whole body; and what was written on the connection is the responses in
\* the order of the commands read.
C12_ResponseBeforeNextRead ==
  \A c \in ConnIds :
    /\ spc[c] \in {"recv", "dispatch"} =>
         \A i \in 1..Len(slog[c]) : ResponseComplete(slog[c][i])
    /\ \A i \in 1..Len(slog[c]) - 1 : ResponseComplete(slog[c][i])
    /\ s2c[c] = WrittenUpTo(c, Len(slog[c]))

\* C12 witness: a DOWNLOAD answered with its header and whole body, and
\* after it a LIST answered with a listing, the handler reading again.
C12_Witness ==
  \E c \in ConnIds :
    /\ Len(slog[c]) = 2 /\ spc[c] = "recv"
    /\ slog[c][1].resp = "SIZE" /\ ResponseComplete(slog[c][1])
    /\ slog[c][2].resp = "listing"
    /\ s2c[c] = Written(slog[c][1]) \o Written(slog[c][2])

\* The handler of connection c has read everything its peer wrote and
\* waits for more.
AllRead(c) == spc[c] = "recv" /\ c2s[c] = <<>> /\ sdata[c] = <<>>

\* C16: however the peer's bytes are split into receives, the data of
\* every pass of the command loop is exactly one of the frames the peer
\* wrote, and when all of them are read there are as many passes, each with
\* one response, as there were frames.
C16_OneCommandPerFrame ==
  \A c \in ConnIds :
    /\ \A i \in 1..Len(slog[c]) : IsFrame(slog[c][i])
    /\ AllRead(c) => Len(slog[c]) = psent[c]

\* e is a LIST of a directory.
ListOfDir(e) ==
  /\ IsFrame(e) /\ e.data[1].json = "obj" /\ e.data[1].type = "LIST"
  /\ e.data[1].pkind = "str"
  /\ ~Resolved(e.data[1]).none /\ KindAt(Resolved(e.data[1]).val) = "dir"

\* C19: a LIST of a directory is answered with a listing or, when the
\* lister fails (the directory cannot be read, a child vanishes between
\* listdir and getsize), with an {"error": ...} record; no exception ends
\* the handler, which goes on to read the next command (while the peer is
\* there to be answered).
C19_ListerFailureAnswered ==
  \A c \in ConnIds : \A i \in 1..Len(slog[c]) :
    LET e == slog[c][i] IN
    (ListOfDir(e) /\ e.exc # "BrokenPipeError") =>
      /\ e.resp \in {"listing", "error"}
      /\ e.exc = ""
      /\ (i = Len(slog[c]) /\ ~cliClosed[c] /\ ~broken[c]) =>
           spc[c] \in {"recv", "dispatch"}

\* --------------------------------------------------------------- Downloader

\* Sizes the client passes to recv.
HDR_RECV == 1024
CHUNK_SIZE == 65536

\* int(text): the value of a string of decimal digits, or ValueError.
ParseInt(text) ==
  LET digits == <<"0", "1", "2", "3", "4", "5", "6", "7", "8", "9">>
      val(ch) == (CHOOSE d \in 1..10 : digits[d] = ch) - 1
      RECURSIVE F(_, _)
      F(i, acc) == IF i > Len(text) THEN acc ELSE F(i + 1, 10 * acc + val(text[i]))
  IN IF text = <<>> \/ \E i \in 1..Len(text) : \A d \in 1..10 : digits[d] # text[i]
     THEN [ok |-> FALSE, val |-> 0]
     ELSE [ok |-> TRUE, val |-> F(1, 0)]

\* The command a Downloader sends: json.dumps of a DOWNLOAD record, '\n'.
DownloadCmd(path) == <<Record("obj", "DOWNLOAD", "str", path), NL>>

\* Lines 83-84: a chunk that ends with b'END\n' loses its last four bytes.
StripEnd(chunk) ==
  IF EndsWith(chunk, END) THEN SubSeq(chunk, 1, Len(chunk) - 4) ELSE chunk

\* A remove_download that forgot the entries would leave the registry and
\* the progress frames as they are.
RemoveDownload_Keep(path) ==
  UNCHANGED <<downloaders, progress_widgets, destroyed>>

\* ClientGUI.remove_download(remote_path): the progress frame is destroyed
\* and both entries are deleted.
RemoveDownload(path) ==
  /\ destroyed' = IF progress_widgets[path] # 0
                  THEN destroyed \cup {progress_widgets[path]}
                  ELSE destroyed
  /\ progress_widgets' = [progress_widgets EXCEPT ![path] = 0]
  /\ downloaders' = [downloaders EXCEPT ![path] = 0]

\* Session s is in the Transferring state: its destination file is open
\* and fewer than total_size bytes have been counted.
Transferring(s) ==
  /\ dpc[s] \in {"loop", "recv", "prog1", "prog2"}
  /\ downloaded[s] < total_size[s]

\* The except clause of _download (messagebox.showerror) on the way to the
\* finally clause.
DlFail(s) ==
  /\ outcome' = [outcome EXCEPT ![s] = "failed"]
  /\ dpc' = [dpc EXCEPT ![s] = "finally"]

\* ClientGUI.start_download: a Downloader for remote path path is made,
\* registered, given its progress frame, and started.
StartDownload(s, path) ==
  /\ dpc[s] = "idle"
  /\ file_path' = [file_path EXCEPT ![s] = path]
  /\ cancelled' = [cancelled EXCEPT ![s] = FALSE]
  /\ total_size' = [total_size EXCEPT ![s] = 0]
  /\ downloaded' = [downloaded EXCEPT ![s] = 0]
  /\ downloaders' = [downloaders EXCEPT ![path] = s]
  /\ progress_widgets' = [progress_widgets EXCEPT ![path] = s]
  /\ dpc' = [dpc EXCEPT ![s] = "connect"]
  /\ UNCHANGED <<staticVars, netVars, srvVars, header, dest, outcome, dw,
                 hist, destroyed>>

\* ClientGUI.cancel_download, from the Cancel button of a progress frame
\* that still exists.
CancelDownload(path) ==
  /\ \E w \in DOMAIN dpc :
       dpc[w] \notin {"off", "idle"} /\ file_path[w] = path /\ w \notin destroyed
  /\ IF downloaders[path] # 0
     THEN /\ cancelled' = [cancelled EXCEPT ![downloaders[path]] = TRUE]
          /\ hist' = [hist EXCEPT ![downloaders[path]].cancelInTransfer =
                        @ \/ Transferring(downloaders[path])]
     ELSE UNCHANGED <<cancelled, hist>>
  /\ RemoveDownload(path)
  /\ UNCHANGED <<staticVars, netVars, srvVars, dpc, file_path, total_size,
                 downloaded, header, dest, outcome, dw>>

\* Lines 55-58: connect and send the command.
DlConnect(s) ==
  /\ dpc[s] = "connect"
  /\ spc[s] = "none"
  /\ spc' = [spc EXCEPT ![s] = "pending"]
  /\ c2s' = [c2s EXCEPT ![s] = DownloadCmd(file_path[s])]
  /\ header' = [header EXCEPT ![s] = <<>>]
  /\ dpc' = [dpc EXCEPT ![s] = "hdr"]
  /\ UNCHANGED <<staticVars, guiVars, s2c, cliClosed, srvClosed, broken,
                 fdata, sdata, sfile, sofs, slog, psent, file_path, cancelled,
                 total_size, downloaded, dest, outcome, dw, hist>>

\* Lines 67-78, once the header holds a '\n': the header line is parsed
\* and, for a SIZE header, the destination file is opened for writing.
DlParseHeader(s, hdr) ==
  \E line \in {Split(hdr, "\n")[1]} :
    IF StartsWith(line, <<"E", "R", "R", "O", "R">>)
    THEN /\ cliClosed' = [cliClosed EXCEPT ![s] = TRUE]
         /\ RemoveDownload(file_path[s])
         /\ DlFail(s)
         /\ UNCHANGED <<total_size, dest>>
    ELSE \E size \in {ParseInt(SubSeq(line, 6, Len(line)))} :
         IF ~StartsWith(line, <<"S", "I", "Z", "E", ":">>) \/ ~size.ok
         THEN /\ DlFail(s)
              /\ UNCHANGED <<total_size, dest, cliClosed, guiVars>>
         ELSE /\ total_size' = [total_size EXCEPT ![s] = size.val]
              /\ dest' = [dest EXCEPT ![s] = FileOf(<<>>)]
              /\ dpc' = [dpc EXCEPT ![s] = "loop"]
              /\ UNCHANGED <<outcome, cliClosed, guiVars>>

\* Lines 62-66: chunk = s.recv(1024) of the header loop, and what follows
\* when the header is complete.
DlRecvHeader(s) ==
  /\ dpc[s] = "hdr"
  /\ broken[s] \/ s2c[s] # <<>> \/ srvClosed[s]
  /\ IF broken[s] \/ s2c[s] = <<>>
     THEN /\ DlFail(s)
          /\ UNCHANGED <<s2c, header, total_size, dest, cliClosed, guiVars>>
     ELSE \E k \in 1..Min(Len(s2c[s]), HDR_RECV) :
          \E hdr \in {header[s] \o SubSeq(s2c[s], 1, k)} :
            /\ s2c' = [s2c EXCEPT ![s] = SubSeq(@, k + 1, Len(@))]
            /\ header' = [header EXCEPT ![s] = hdr]
            /\ IF Contains(hdr, "\n")
               THEN DlParseHeader(s, hdr)
               ELSE UNCHANGED <<dpc, outcome, total_size, dest, cliClosed,
                                guiVars>>
  /\ UNCHANGED <<staticVars, srvVars, c2s, srvClosed, broken, file_path,
                 cancelled, downloaded, dw, hist>>

\* Line 79: the test of the transfer loop.
DlLoop(s) ==
  /\ dpc[s] = "loop"
  /\ dpc' = [dpc EXCEPT ![s] =
               IF ~cancelled[s] /\ downloaded[s] < total_size[s]
               THEN "recv" ELSE "close"]
  /\ UNCHANGED <<staticVars, netVars, srvVars, guiVars, file_path, cancelled,
                 total_size, downloaded, header, dest, outcome, dw, hist>>

\* Lines 80-86: chunk = s.recv(CHUNK_SIZE), the marker test, f.write and
\* the count.
DlRecv(s) ==
  /\ dpc[s] = "recv"
  /\ broken[s] \/ s2c[s] # <<>> \/ srvClosed[s]
  /\ IF broken[s]
     THEN /\ DlFail(s)
          /\ UNCHANGED <<s2c, dest, downloaded, hist>>
     ELSE IF s2c[s] = <<>>
     THEN /\ dpc' = [dpc EXCEPT ![s] = "close"]
          /\ hist' = [hist EXCEPT ![s].shortStream = TRUE]
          /\ UNCHANGED <<s2c, dest, downloaded, outcome>>
     ELSE \E k \in 1..Min(Len(s2c[s]), CHUNK_SIZE) :
          \E chunk \in {StripEnd(SubSeq(s2c[s], 1, k))} :
            /\ s2c' = [s2c EXCEPT ![s] = SubSeq(@, k + 1, Len(@))]
            /\ dest' = [dest EXCEPT ![s].data = @ \o chunk]
            /\ downloaded' = [downloaded EXCEPT ![s] = @ + Len(chunk)]
            /\ dpc' = [dpc EXCEPT ![s] = "prog1"]
            /\ UNCHANGED <<outcome, hist>>
  /\ UNCHANGED <<staticVars, srvVars, guiVars, c2s, cliClosed, srvClosed,
                 broken, file_path, cancelled, total_size, header, dw>>

\* Lines 264-266 of update_progress: the membership test and the lookup of
\* the widgets.  next is where _download goes on when there are none.
ProgressLookup(s, at, shown, next) ==
  /\ dpc[s] = at
  /\ IF progress_widgets[file_path[s]] = 0
     THEN dpc' = [dpc EXCEPT ![s] = next] /\ UNCHANGED dw
     ELSE /\ dw' = [dw EXCEPT ![s] = progress_widgets[file_path[s]]]
          /\ dpc' = [dpc EXCEPT ![s] = shown]

\* Lines 267-282 of update_progress: the widgets are configured, which
\* raises TclError when their frame has been destroyed meanwhile.
ProgressShow(s, at, next) ==
  /\ dpc[s] = at
  /\ IF dw[s] \in destroyed
     THEN DlFail(s)
     ELSE dpc' = [dpc EXCEPT ![s] = next] /\ UNCHANGED outcome

\* Lines 87-90: update_progress after a chunk.
DlProgressLookup(s) ==
  /\ ProgressLookup(s, "prog1", "prog2", "loop")
  /\ UNCHANGED <<staticVars, netVars, srvVars, guiVars, file_path, cancelled,
                 total_size, downloaded, header, dest, outcome, hist>>

DlProgressShow(s) ==
  /\ ProgressShow(s, "prog2", "loop")
  /\ UNCHANGED <<staticVars, netVars, srvVars, guiVars, file_path, cancelled,
                 total_size, downloaded, header, dest, dw, hist>>

\* Lines 91-95: s.close(), then the cancelled test and os.remove.
DlClose(s) ==
  /\ dpc[s] = "close"
  /\ cliClosed' = [cliClosed EXCEPT ![s] = TRUE]
  /\ IF cancelled[s] /\ dest[s].exists
     THEN /\ dest' = [dest EXCEPT ![s] = NoFile]
          /\ outcome' = [outcome EXCEPT ![s] = "cancelled"]
          /\ dpc' = [dpc EXCEPT ![s] = "finally"]
     ELSE /\ dpc' = [dpc EXCEPT ![s] = "fin1"]
          /\ UNCHANGED <<dest, outcome>>
  /\ UNCHANGED <<staticVars, srvVars, guiVars, c2s, s2c, srvClosed, broken,
                 file_path, cancelled, total_size, downloaded, header, dw,
                 hist>>

\* Line 96: update_progress(file_path, total_size, total_size, start_time).
DlFinalLookup(s) ==
  /\ ProgressLookup(s, "fin1", "fin2", "complete")
  /\ UNCHANGED <<staticVars, netVars, srvVars, guiVars, file_path, cancelled,
                 total_size, downloaded, header, dest, outcome, hist>>

DlFinalShow(s) ==
  /\ ProgressShow(s, "fin2", "complete")
  /\ UNCHANGED <<staticVars, netVars, srvVars, guiVars, file_path, cancelled,
                 total_size, downloaded, header, dest, dw, hist>>

\* Line 97: messagebox.showinfo("Complete", ...).
DlComplete(s) ==
  /\ dpc[s] = "complete"
  /\ outcome' = [outcome EXCEPT ![s] = "complete"]
  /\ dpc' = [dpc EXCEPT ![s] = "finally"]
  /\ UNCHANGED <<staticVars, netVars, srvVars, guiVars, file_path, cancelled,
                 total_size, downloaded, header, dest, dw, hist>>

\* Lines 100-101: the finally clause.
DlFinally(s) ==
  /\ dpc[s] = "finally"
  /\ RemoveDownload(file_path[s])
  /\ dpc' = [dpc EXCEPT ![s] = "done"]
  /\ UNCHANGED <<staticVars, netVars, srvVars, file_path, cancelled,
                 total_size, downloaded, header, dest, outcome, dw, hist>>

\* --------------------------------------------------------------------- Spec

\* Longest run of plain bytes before and after the marker in a source file.
MaxPad == 1

Pad(ch) == {[i \in 1..n |-> ch] : n \in 0..MaxPad}

\* Source file contents: empty, plain bytes, and contents that hold the
\* bytes of the marker at their start, in their middle or at their end.
Contents == {p \o m \o q : p \in Pad("a"), m \in {<<>>, END}, q \in Pad("b")}

\* One server that shares the whole drive, one GUI with one Downloader to
\* start.
Init ==
  /\ ROOT_DIR = <<"/">>
  /\ \E fbytes \in Contents, fperm \in BOOLEAN :
       fs = SrvFs(fbytes, fperm) /\ fdata = SrvData(fbytes)
  /\ netIdle
  /\ spc = [c \in ConnIds |-> "none"]
  /\ sdata = [c \in ConnIds |-> <<>>]
  /\ sfile = [c \in ConnIds |-> <<>>]
  /\ sofs = [c \in ConnIds |-> 0]
  /\ slog = [c \in ConnIds |-> <<>>]
  /\ psent = [c \in ConnIds |-> 0]
  /\ dpc = [s \in Sessions |-> "idle"]
  /\ file_path = [s \in Sessions |-> <<>>]
  /\ cancelled = [s \in Sessions |-> FALSE]
  /\ total_size = [s \in Sessions |-> 0]
  /\ downloaded = [s \in Sessions |-> 0]
  /\ header = [s \in Sessions |-> <<>>]
  /\ dest = [s \in Sessions |-> NoFile]
  /\ outcome = [s \in Sessions |-> "none"]
  /\ dw = [s \in Sessions |-> 0]
  /\ hist = [s \in Sessions |-> NoHist]
  /\ downloaders = [p \in RemotePaths |-> 0]
  /\ progress_widgets = [p \in RemotePaths |-> 0]
  /\ destroyed = {}
  /\ pathIdle /\ listIdle

Next ==
  \/ \E s \in Sessions, path \in RemotePaths : StartDownload(s, path)
  \/ \E path \in RemotePaths : CancelDownload(path)
  \/ \E s \in Sessions :
       \/ DlConnect(s)
       \/ DlRecvHeader(s)
       \/ DlLoop(s)
       \/ DlRecv(s)
       \/ DlProgressLookup(s)
       \/ DlProgressShow(s)
       \/ DlClose(s)
       \/ DlFinalLookup(s)
       \/ DlFinalShow(s)
       \/ DlComplete(s)
       \/ DlFinally(s)
  \/ \E c \in ConnIds :
       \/ MainAccept(c)
       \/ SrvRecv(c)
       \/ SrvDispatch(c)
       \/ SrvOpen(c)
       \/ SrvSendChunk(c)
       \/ SrvSendEnd(c)
       \/ ConnReset(c)

Spec == Init /\ [][Next]_vars

\* ------------------------------------------------- Properties of a session

\* The bytes of the file the server opened for session s.
SourceOf(s) == fdata[slog[s][1].full_path]

Ended(s) == dpc[s] = "done"

\* C1: a session that is not cancelled and reports completion has written
\* a destination file with exactly the bytes of the source file, whatever
\* the content and however the stream was split into receive calls.
C1_RoundTrip ==
  \A s \in Sessions :
    outcome[s] = "complete" /\ ~cancelled[s] =>
      dest[s].exists /\ dest[s].data = SourceOf(s)

\* C3: the downloaded counter never exceeds the total_size the header
\* declared, and equals it when the session reports completion.
C3_CounterBounded ==
  \A s \in Sessions :
    /\ dpc[s] \notin {"off", "idle", "connect", "hdr"} =>
         downloaded[s] <= total_size[s]
    /\ outcome[s] = "complete" /\ ~cancelled[s] =>
         downloaded[s] = total_size[s]

\* C4: a session that was cancelled while it was transferring has no
\* destination file once it has ended.
C4_CancelRemovesFile ==
  \A s \in Sessions :
    Ended(s) /\ hist[s].cancelInTransfer => ~dest[s].exists

\* C5: completion is reported only with downloaded = total_size, and a
\* session that was not cancelled and whose stream ended before total_size
\* bytes had arrived ends as failed.
C5_CompleteOnlyWhenAllArrived ==
  \A s \in Sessions :
    /\ outcome[s] = "complete" => downloaded[s] = total_size[s]
    /\ Ended(s) /\ hist[s].shortStream /\ ~cancelled[s] =>
         outcome[s] = "failed"

\* C6: a session that has ended as failed or cancelled, or whose stream
\* ended before total_size bytes, has left no destination file.
C6_NoPartialFile ==
  \A s \in Sessions :
    Ended(s) /\ (outcome[s] \in {"failed", "cancelled"} \/ hist[s].shortStream)
      => ~dest[s].exists

\* ------------------------------------------------------------------ SpecIso

\* Two connections accepted by main, each with its own handle_client
\* thread.
IsoConns == {1, 2}

\* Frames a peer writes to its connection in SpecIso.
IsoFrames == 1

\* Commands the peers of SpecIso send: a download of the file, a listing
\* of the directory.
IsoRecords ==
  {Record("obj", "DOWNLOAD", "str", <<"f">>),
   Record("obj", "LIST", "str", <<"d">>)}

InitIso ==
  /\ ROOT_DIR = <<"/", "r">>
  /\ fs = SrvFs(<<"a", "b">>, TRUE)
  /\ fdata = SrvData(<<"a", "b">>)
  /\ c2s = [c \in IsoConns |-> <<>>] /\ s2c = [c \in IsoConns |-> <<>>]
  /\ cliClosed = [c \in IsoConns |-> FALSE]
  /\ srvClosed = [c \in IsoConns |-> FALSE]
  /\ broken = [c \in IsoConns |-> FALSE]
  /\ spc = [c \in IsoConns |-> "pending"]
  /\ sdata = [c \in IsoConns |-> <<>>]
  /\ sfile = [c \in IsoConns |-> <<>>]
  /\ sofs = [c \in IsoConns |-> 0]
  /\ slog = [c \in IsoConns |-> <<>>]
  /\ psent = [c \in IsoConns |-> 0]
  /\ pathIdle /\ listIdle /\ cliIdle

IsoSend(c) ==
  /\ spc[c] # "none" /\ ~cliClosed[c] /\ ~broken[c]
  /\ psent[c] < IsoFrames
  /\ \E r \in IsoRecords : c2s' = [c2s EXCEPT ![c] = @ \o <<r, NL>>]
  /\ psent' = [psent EXCEPT ![c] = @ + 1]
  /\ UNCHANGED <<staticVars, cliVars, guiVars, s2c, cliClosed, srvClosed,
                 broken, fdata, spc, sdata, sfile, sofs, slog>>

NextIso ==
  \E c \in IsoConns :
    \/ MainAccept(c)
    \/ SrvRecv(c)
    \/ SrvDispatch(c)
    \/ SrvOpen(c)
    \/ SrvSendChunk(c)
    \/ SrvSendEnd(c)
    \/ IsoSend(c)
    \/ PeerClose(c)
    \/ ConnReset(c)

SpecIso == InitIso /\ [][NextIso]_vars

\* A step in which the handle_client context of connection c ends on a
\* failed recv or send: the connection was reset, or the peer had closed
\* it while a response was being written.
FailsIn(c) ==
  /\ spc[c] \notin {"pending", "done"} /\ spc'[c] = "done"
  /\ broken[c] \/ spc[c] # "recv"

\* What belongs to connection d: its socket, its handler's position and
\* locals, or its place in the accept queue.
SameContext(d) ==
  /\ spc'[d] = spc[d] /\ srvClosed'[d] = srvClosed[d]
  /\ sdata'[d] = sdata[d] /\ sfile'[d] = sfile[d] /\ sofs'[d] = sofs[d]
  /\ slog'[d] = slog[d]
  /\ c2s'[d] = c2s[d] /\ s2c'[d] = s2c[d]
  /\ cliClosed'[d] = cliClosed[d] /\ broken'[d] = broken[d]

\* C11: a step in which one connection's handler ends on a failed recv or
\* send closes that connection and leaves every other connection, whether
\* it is being handled or still waits to be accepted, as it was.
C11_ConnectionIsolation ==
  [][\A c \in IsoConns :
       FailsIn(c) =>
         /\ srvClosed'[c]
         /\ \A d \in IsoConns \ {c} : SameContext(d)]_vars

\* C11 witness: connection 1 was reset and its handler has ended, and
\* after that connection 2 was accepted and its download answered in full.
C11_Witness ==
  /\ broken[1] /\ spc[1] = "done" /\ srvClosed[1]
  /\ ~srvClosed[2] /\ spc[2] = "recv"
  /\ Len(slog[2]) = 1 /\ slog[2][1].resp = "SIZE"
  /\ slog[2][1].body = fdata[slog[2][1].full_path] \o END

\* ------------------------------------------------------------------ SpecTwo

\* Two Downloaders of one GUI, each with its own connection, thread and
\* destination file.
TwoSessions == {1, 2}

\* The two files the GUI can ask for in SpecTwo.
TwoPaths == {<<"/", "r", "/", "f">>, <<"/", "r", "2", "/", "s">>}

InitTwo ==
  /\ ROOT_DIR = <<"/">>
  /\ fs = SrvFs(<<>>, TRUE)
  /\ fdata = SrvData(<<>>)
  /\ c2s = [c \in TwoSessions |-> <<>>] /\ s2c = [c \in TwoSessions |-> <<>>]
  /\ cliClosed = [c \in TwoSessions |-> FALSE]
  /\ srvClosed = [c \in TwoSessions |-> FALSE]
  /\ broken = [c \in TwoSessions |-> FALSE]
  /\ spc = [c \in TwoSessions |-> "none"]
  /\ sdata = [c \in TwoSessions |-> <<>>]
  /\ sfile = [c \in TwoSessions |-> <<>>]
  /\ sofs = [c \in TwoSessions |-> 0]
  /\ slog = [c \in TwoSessions |-> <<>>]
  /\ psent = [c \in TwoSessions |-> 0]
  /\ dpc = [s \in TwoSessions |-> "idle"]
  /\ file_path = [s \in TwoSessions |-> <<>>]
  /\ cancelled = [s \in TwoSessions |-> FALSE]
  /\ total_size = [s \in TwoSessions |-> 0]
  /\ downloaded = [s \in TwoSessions |-> 0]
  /\ header = [s \in TwoSessions |-> <<>>]
  /\ dest = [s \in TwoSessions |-> NoFile]
  /\ outcome = [s \in TwoSessions |-> "none"]
  /\ dw = [s \in TwoSessions |-> 0]
  /\ hist = [s \in TwoSessions |-> NoHist]
  /\ downloaders = [p \in TwoPaths |-> 0]
  /\ progress_widgets = [p \in TwoPaths |-> 0]
  /\ destroyed = {}
  /\ pathIdle /\ listIdle

\* start_download is called for the first Downloader, on either file, and
\* then for the second one, on the file f: the same remote path again, or
\* a different one.
NextTwo ==
  \/ \E path \in TwoPaths : StartDownload(1, path)
  \/ dpc[1] # "idle" /\ StartDownload(2, <<"/", "r", "/", "f">>)
  \/ \E path \in TwoPaths : CancelDownload(path)
  \/ \E s \in TwoSessions :
       \/ DlConnect(s)
       \/ DlRecvHeader(s)
       \/ DlLoop(s)
       \/ DlRecv(s)
       \/ DlProgressLookup(s)
       \/ DlProgressShow(s)
       \/ DlClose(s)
       \/ DlFinalLookup(s)
       \/ DlFinalShow(s)
       \/ DlComplete(s)
       \/ DlFinally(s)
  \/ \E c \in TwoSessions :
       \/ MainAccept(c)
       \/ SrvRecv(c)
       \/ SrvDispatch(c)
       \/ SrvOpen(c)
       \/ SrvSendChunk(c)
       \/ SrvSendEnd(c)

SpecTwo == InitTwo /\ [][NextTwo]_vars

\* The _download thread of session s is running and has not reached its
\* except or finally clause.
Running(s) ==
  dpc[s] \in {"connect", "hdr", "loop", "recv", "prog1", "prog2", "close",
              "fin1", "fin2", "complete"}

\* C13: of two sessions for different remote paths, each one that runs
\* uncancelled keeps its own registry and progress entry, and each one that
\* reports completion uncancelled has counted total_size bytes and written
\* the bytes of its own source file.
C13_IndependentSessions ==
  (Running(1) \/ Ended(1)) /\ (Running(2) \/ Ended(2))
    /\ file_path[1] # file_path[2] =>
    \A s \in TwoSessions :
      /\ Running(s) /\ ~cancelled[s] =>
           downloaders[file_path[s]] = s /\ progress_widgets[file_path[s]] = s
      /\ outcome[s] = "complete" /\ ~cancelled[s] =>
           /\ downloaded[s] = total_size[s]
           /\ dest[s].exists /\ dest[s].data = SourceOf(s)

\* C20: every session that runs uncancelled is the registry entry of its
\* remote path, and the finally clause of a session takes away no registry
\* or progress entry but its own.
C20_RegistryConsistent ==
  /\ [](\A s \in TwoSessions :
          Running(s) /\ ~cancelled[s] => downloaders[file_path[s]] = s)
  /\ [][\A s \in TwoSessions :
          dpc[s] = "finally" /\ dpc'[s] = "done" =>
            \A p \in TwoPaths :
              /\ downloaders'[p] # downloaders[p] => downloaders[p] = s
              /\ progress_widgets'[p] # progress_widgets[p] =>
                   progress_widgets[p] = s]_vars

\* The header session s received is complete and is an error header.
GotErrorHeader(s) ==
  /\ Contains(header[s], "\n")
  /\ StartsWith(Split(header[s], "\n")[1], <<"E", "R", "R", "O", "R">>)

\* C14: a session whose header is an error header has failed, has no
\* destination file, has total_size and downloaded at 0, and is not in the
\* registry, from the moment the header is complete.
C14_ErrorHeaderFails ==
  \A s \in Sessions :
    GotErrorHeader(s) =>
      /\ outcome[s] = "failed" /\ dpc[s] \in {"finally", "done"}
      /\ ~dest[s].exists
      /\ total_size[s] = 0 /\ downloaded[s] = 0
      /\ downloaders[file_path[s]] # s

\* C14 witness: a session that asked for a directory, read the whole
\* error header the server sent, and has ended.
C14_Witness ==
  \E s \in Sessions :
    /\ GotErrorHeader(s) /\ Ended(s) /\ outcome[s] = "failed"
    /\ slog[s][1].resp = "ERROR" /\ s2c[s] = <<>>

\* C15: the cancelled flag only goes from false to true; a session that
\* has seen it set at the loop test does no further receive; and a session
\* that was cancelled while transferring, and whose receives all returned,
\* has ended with its connection closed and its partial output removed.
C15_CooperativeCancel ==
  /\ [][\A s \in Sessions :
          /\ cancelled[s] => cancelled'[s]
          /\ dpc[s] = "loop" /\ cancelled[s] => dpc'[s] # "recv"]_vars
  /\ [](\A s \in Sessions :
          Ended(s) /\ hist[s].cancelInTransfer /\ ~broken[s] =>
            /\ cliClosed[s]
            /\ ~dest[s].exists
            /\ outcome[s] = "cancelled")

\* C17: update_progress never configures the widgets of a frame that was
\* destroyed, and a session cancelled while transferring, with no failure
\* of its connection, does not end as failed.
C17_ProgressSafe ==
  \A s \in Sessions :
    /\ dpc[s] \in {"prog2", "fin2"} => dw[s] \notin destroyed
    /\ Ended(s) /\ hist[s].cancelInTransfer /\ ~broken[s] =>
         outcome[s] # "failed"

\* ----------------------------------------------------------------- SpecLive

\* One download of the regular file f that is never cancelled, over a
\* connection that never fails, from a server that can read the file.
InitLive ==
  /\ ROOT_DIR = <<"/">>
  /\ \E fbytes \in Contents :
       fs = SrvFs(fbytes, TRUE) /\ fdata = SrvData(fbytes)
  /\ netIdle
  /\ spc = [c \in ConnIds |-> "none"]
  /\ sdata = [c \in ConnIds |-> <<>>]
  /\ sfile = [c \in ConnIds |-> <<>>]
  /\ sofs = [c \in ConnIds |-> 0]
  /\ slog = [c \in ConnIds |-> <<>>]
  /\ psent = [c \in ConnIds |-> 0]
  /\ dpc = [s \in Sessions |-> "idle"]
  /\ file_path = [s \in Sessions |-> <<>>]
  /\ cancelled = [s \in Sessions |-> FALSE]
  /\ total_size = [s \in Sessions |-> 0]
  /\ downloaded = [s \in Sessions |-> 0]
  /\ header = [s \in Sessions |-> <<>>]
  /\ dest = [s \in Sessions |-> NoFile]
  /\ outcome = [s \in Sessions |-> "none"]
  /\ dw = [s \in Sessions |-> 0]
  /\ hist = [s \in Sessions |-> NoHist]
  /\ downloaders = [p \in RemotePaths |-> 0]
  /\ progress_widgets = [p \in RemotePaths |-> 0]
  /\ destroyed = {}
  /\ pathIdle /\ listIdle

\* One step of the _download thread of session s.
DlStep(s) ==
  \/ DlConnect(s)
  \/ DlRecvHeader(s)
  \/ DlLoop(s)
  \/ DlRecv(s)
  \/ DlProgressLookup(s)
  \/ DlProgressShow(s)
  \/ DlClose(s)
  \/ DlFinalLookup(s)
  \/ DlFinalShow(s)
  \/ DlComplete(s)
  \/ DlFinally(s)

\* One step of main or of the handle_client thread of connection c other
\* than the dispatch of a frame.
SrvStep(c) ==
  \/ MainAccept(c)
  \/ SrvRecv(c)
  \/ SrvOpen(c)
  \/ SrvSendChunk(c)
  \/ SrvSendEnd(c)

NextLive ==
  \/ \E s \in Sessions : StartDownload(s, <<"/", "r", "/", "f">>)
  \/ \E s \in Sessions : DlStep(s)
  \/ \E c \in ConnIds : SrvStep(c)
  \/ \E c \in ConnIds : SrvDispatch(c)

\* The download thread and the server's threads are each scheduled in the
\* end when they can take a step; for the dispatch of a frame, which is
\* possible exactly while the handler is at it, that is to say that the
\* handler is not at it for ever.
SpecLive ==
  /\ InitLive /\ [][NextLive]_vars
  /\ \A s \in Sessions : WF_vars(DlStep(s))
  /\ \A c \in ConnIds : WF_vars(SrvStep(c)) /\ []<>(spc[c] # "dispatch")

\* C18: a started session that is never cancelled, whose server sends its
\* whole response and then waits for the next command, reports completion
\* in the end, however the stream is split into receives.
C18_DownloadTerminates ==
  \A s \in Sessions : (dpc[s] = "connect") ~> (outcome[s] = "complete")

====
